---- MODULE Spec2Model ----
(***************************************************************************)
(* The session/transport layer of the Google Maps MCP server (index.ts):   *)
(* the module-level McpServer `server`, the module-level registry          *)
(* `transports`, and the three routes POST/GET/DELETE /mcp registered by   *)
(* startHttpServer, together with the geocode tool handler.                *)
(*                                                                         *)
(* A handler is an async function: it runs without interruption up to an   *)
(* `await`, where other requests may be served.  The POST route that       *)
(* creates a session is therefore two steps: PostInitialize (up to         *)
(* `await server.connect(transport)`) and HandleInitialize (the            *)
(* `transport.handleRequest` that follows).  A tool call is two steps as   *)
(* well: PostToolCall and ToolReturn (the provider call is awaited).       *)
(*                                                                         *)
(* McpServer and StreamableHTTPServerTransport come from the MCP SDK.  What *)
(* the model takes from them: a server is connected to one transport at a  *)
(* time (connect replaces it, a close notification clears it) and answers  *)
(* through it; a transport refuses a request whose HTTP headers it does not *)
(* accept (406), gives itself a session id on the initialize request, and  *)
(* calls onclose when it is closed.                                        *)
(*                                                                         *)
(* Three further parts have specifications of their own: the start of the  *)
(* process (config.ts read through env-var, then app.listen; SpecStartup),  *)
(* the six tool handlers with the provider calls of googleMaps.ts they     *)
(* await (SpecTools), and durationToSeconds (SpecDuration).                *)
(***************************************************************************)
EXTENDS Integers, FiniteSets, Sequences, TLC

\* ------------------------------------------------------------------ bounds
MaxTransports == 2      \* transports constructed in one run
MaxEvents == 4          \* HTTP requests and close notifications in one run
MaxPortLen == 2         \* characters in the value of the PORT environment variable
MaxDurationLen == 4     \* characters in a duration given as a string
MaxItems == 3           \* places, suggestions, routes in one provider response

\* --------------------------------------------------------------- constants
undefined == "undefined"          \* the JavaScript value undefined
NoTransport == 0                  \* no transport object (undefined)
ObjectPrototypeMember == -1       \* a member inherited from Object.prototype

UUIDNames == <<"u1", "u2", "u3", "u4", "u5", "u6">>
UUIDs == {UUIDNames[i] : i \in 1..MaxTransports}     \* values of randomUUID()
\* `transports` is an object literal: its prototype chain answers these keys
InheritedKeys == {"constructor"}
\* values of the mcp-session-id request header (undefined: header absent)
Headers == {undefined} \cup UUIDs \cup InheritedKeys
Payloads == {"initialize", "tools/call", "ping"}
Transports == 1..MaxTransports
CloseCauses == {"disconnect", "engine_fatal"}
ProviderOutcomes == {"ok", "throws", "error_status", "timeout"}

VARIABLES
    transports,     \* the registry: session id -> transport (NoTransport: no own key)
    server,         \* the transport the module-level McpServer is connected to
    tstate,         \* per transport: unused, connected, uninitialized, initialized, closed
    sessionId,      \* per transport: transport.sessionId
    pending,        \* per transport: the request awaiting transport.handleRequest
    toolcall,       \* per transport: idle / pending (a tool handler awaits the provider)
    capture,        \* per transport: server's transport when the tool call arrived
    closed,         \* the last close notification of a transport
    nevent,         \* number of requests and close notifications received
    reply,          \* the last HTTP response produced
    result,         \* the last message the protocol engine sent back
    runToCompletion,\* scheduling: whether an await that waits for no I/O yields
    env,            \* process.env: GOOGLE_MAPS_API_KEY and PORT
    proc,           \* the process: start, configured, listening (on a port), exited
    config,         \* the exported config object of config.ts
    call,           \* the outbound provider call a tool handler awaits
    response,       \* what the provider answered to that call
    structured,     \* what the tool call ended in: a structured result or a failure
    duration,       \* an argument of durationToSeconds
    seconds         \* what durationToSeconds returned for it

sessionVars == <<transports, server, tstate, sessionId, pending, toolcall, capture,
                 closed, nevent, reply, result, runToCompletion>>
startupVars == <<env, proc, config>>
toolVars == <<call, response, structured, duration, seconds>>

vars == <<sessionVars, startupVars, toolVars>>

\* ------------------------------------------------------------ plain values
NoRequest == [seq |-> 0, header |-> undefined, payload |-> "none", accept |-> FALSE]
NoBody == [type |-> "none", code |-> 0, message |-> ""]
NoReply == [seq |-> 0, method |-> "none", header |-> undefined, payload |-> "none",
            accept |-> FALSE, code |-> 0, body |-> NoBody, sid |-> undefined]
NoClose == [seq |-> 0, transport |-> NoTransport, cause |-> "none", again |-> FALSE]
NoResult == [session |-> NoTransport, via |-> NoTransport, outcome |-> "none",
             isError |-> FALSE]

\* index.ts 355-359: the JSON-RPC error of the POST route
MissingSessionBody == [type |-> "json-rpc-error", code |-> -32000,
                       message |-> "Bad Request: No valid session ID provided"]
\* index.ts 389, 401: the plain-text error of the GET and DELETE routes
InvalidSessionBody == [type |-> "text", code |-> 0,
                       message |-> "Invalid or missing session ID"]
\* answers of StreamableHTTPServerTransport.handleRequest
NotAcceptableBody == [type |-> "json-rpc-error", code |-> -32000,
                      message |-> "Not Acceptable"]
AlreadyInitializedBody == [type |-> "json-rpc-error", code |-> -32600,
                           message |-> "Invalid Request: Server already initialized"]
StreamBody == [type |-> "event-stream", code |-> 0, message |-> ""]
EmptyBody == [type |-> "empty", code |-> 0, message |-> ""]
\* the handler threw after reply.hijack(): no HTTP response is written
TypeErrorBody == [type |-> "exception", code |-> 0,
                  message |-> "transport.handleRequest is not a function"]

Response(seq, method, h, p, a, code, body, sid) ==
    \* accept: whether the transport finds the HTTP request acceptable (TRUE
    \* where the route answers without consulting the transport)
    [seq |-> seq, method |-> method, header |-> h, payload |-> p, accept |-> a,
     code |-> code, body |-> body, sid |-> sid]

\* ------------------------------------------------------------ pure helpers
\* JavaScript truthiness of a header value: `sessionId ? ... : undefined`
Truthy(h) == h \notin {undefined, ""}

\* `sessionId ? transports[sessionId] : undefined` on the object literal
Lookup(h) ==
    IF ~Truthy(h) THEN NoTransport
    ELSE IF h \in UUIDs /\ transports[h] # NoTransport THEN transports[h]
    ELSE IF h \in InheritedKeys THEN ObjectPrototypeMember
    ELSE NoTransport

isInitializeRequest_always(p) == TRUE
isInitializeRequest(p) == p = "initialize"

\* every session id a transport has ever been given
Issued == {sessionId[t] : t \in Transports} \ {undefined}

sessionIdGenerator_reuse == UUIDs
\* randomUUID(): a value that has not been produced before (the n-th call
\* returns the n-th name)
sessionIdGenerator == {UUIDNames[Cardinality(Issued) + 1]}

onsessioninitialized_fixed(sid, t) == [transports EXCEPT ![UUIDNames[1]] = t]
onsessioninitialized_all(sid, t) == [k \in UUIDs |-> t]
\* transports[sid] = transport
onsessioninitialized(sid, t) == [transports EXCEPT ![sid] = t]

onclose_clear(t) == [k \in UUIDs |-> NoTransport]
onclose_keep(t) == transports
\* const sid = transport?.sessionId; if (sid) delete transports[sid];
onclose(t) ==
    IF Truthy(sessionId[t])
    THEN [transports EXCEPT ![sessionId[t]] = NoTransport]
    ELSE transports

\* googleMaps.geocode: the HTTP client rejects on a timeout (10000 ms), on a
\* network failure and on an error status; otherwise res.data is returned
geocode(o) == [threw |-> o # "ok"]

\* the geocode tool handler has no try/catch: what geocode throws leaves the
\* handler, and the protocol engine answers with a failed tool result
GeocodeTool(o) == [isError |-> geocode(o).threw]

\* the transport that has not been constructed yet, NoTransport when none
NextTransport ==
    IF \E t \in Transports : tstate[t] = "unused"
    THEN CHOOSE t \in Transports :
            tstate[t] = "unused" /\ \A u \in Transports : tstate[u] = "unused" => t <= u
    ELSE NoTransport

\* ----------------------------------------------- config.ts and env-var
\* An environment variable is either not set or set to a string; strings that
\* are parsed are sequences of characters.
NotSet == [set |-> FALSE, value |-> <<>>]
EnvValue(v) == [set |-> TRUE, value |-> v]
Strings(chars, n) == UNION {[1..k -> chars] : k \in 0..n}

KeyValues == {NotSet, EnvValue(<<>>), EnvValue(<<" ">>), EnvValue(<<"k">>)}
PortChars == {"0", "3", "8", "-", "a"}
PortValues == {NotSet} \cup {EnvValue(v) : v \in Strings(PortChars, MaxPortLen)}
Envs == [GOOGLE_MAPS_API_KEY : KeyValues, PORT : PortValues]

DigitChars == <<"0", "1", "2", "3", "4", "5", "6", "7", "8", "9">>
IsDigit(c) == \E i \in 1..10 : DigitChars[i] = c
DigitValue(c) == (CHOOSE i \in 1..10 : DigitChars[i] = c) - 1

\* the longest prefix of s made of decimal digits
DigitPrefix(s) ==
    LET n == CHOOSE k \in 0..Len(s) :
                /\ \A i \in 1..k : IsDigit(s[i])
                /\ k < Len(s) => ~IsDigit(s[k + 1])
    IN SubSeq(s, 1, n)

RECURSIVE DigitsValue(_)
DigitsValue(s) ==
    IF s = <<>> THEN 0
    ELSE 10 * DigitsValue(SubSeq(s, 1, Len(s) - 1)) + DigitValue(s[Len(s)])

\* parseInt(value, 10): an optional sign, then the longest run of digits; NaN
\* when there is no digit
parseInt(s) ==
    LET signed == s # <<>> /\ s[1] \in {"-", "+"}
        digits == DigitPrefix(IF signed THEN Tail(s) ELSE s)
    IN IF digits = <<>> THEN [nan |-> TRUE, n |-> 0]
       ELSE [nan |-> FALSE,
             n |-> IF signed /\ s[1] = "-" THEN 0 - DigitsValue(digits)
                   ELSE DigitsValue(digits)]

RECURSIVE NatToString(_)
NatToString(n) ==
    IF n < 10 THEN <<DigitChars[n + 1]>>
    ELSE NatToString(n \div 10) \o <<DigitChars[(n % 10) + 1]>>

\* n.toString(10)
toString(n) == IF n < 0 THEN <<"-">> \o NatToString(0 - n) ELSE NatToString(n)

\* env-var asInt: parseInt, and the value must be that integer's own numeral
asInt(s) ==
    LET r == parseInt(s)
    IN IF r.nan \/ toString(r.n) # s THEN [threw |-> TRUE, value |-> 0]
       ELSE [threw |-> FALSE, value |-> r.n]

\* env-var asIntPositive: asInt, and the integer must not be negative
asIntPositive(s) ==
    LET r == asInt(s)
    IN IF r.threw \/ r.value < 0 THEN [threw |-> TRUE, value |-> 0] ELSE r

required_lenient(v) == [threw |-> FALSE, value |-> v.value]
\* env-var required().asString(): throws when the variable is not set or its
\* value is empty after trimming
required(v) ==
    IF ~v.set \/ (\A i \in 1..Len(v.value) : v.value[i] = " ")
    THEN [threw |-> TRUE, value |-> <<>>]
    ELSE [threw |-> FALSE, value |-> v.value]

\* env-var default(d): d stands in for a variable that is not set
default(v, d) == IF v.set THEN v ELSE EnvValue(d)

DefaultPort == <<"3", "0", "0", "0">>

\* the object literal of config.ts, evaluated when the module is loaded
LoadedConfig(e) ==
    LET key == required(e.GOOGLE_MAPS_API_KEY)
        port == asIntPositive(default(e.PORT, DefaultPort).value)
    IN [threw |-> key.threw \/ port.threw,
        googleMapsApiKey |-> key.value,
        port |-> port.value]

NoConfig == [googleMapsApiKey |-> <<>>, port |-> 0]
NoPort == -1
Process(state, port) == [state |-> state, port |-> port]

\* requests are served once app.listen has resolved
Listening == proc.state = "listening"

\* the modules are loaded: config.ts reads the environment; an exception there
\* ends the process before startHttpServer is called
LoadConfig ==
    /\ proc.state = "start"
    /\ LET c == LoadedConfig(env) IN
       IF c.threw
       THEN /\ proc' = Process("exited", NoPort)
            /\ UNCHANGED config
       ELSE /\ proc' = Process("configured", NoPort)
            /\ config' = [googleMapsApiKey |-> c.googleMapsApiKey, port |-> c.port]
    /\ UNCHANGED <<env, sessionVars, toolVars>>

\* startHttpServer: await app.listen({ port, host }); when it rejects, the
\* catch of line 412 ends the process
Listen(ok) ==
    /\ proc.state = "configured"
    /\ proc' = IF ok THEN Process("listening", config.port)
                     ELSE Process("exited", NoPort)
    /\ UNCHANGED <<env, config, sessionVars, toolVars>>

\* the process as it serves: started with an API key and no PORT
StartedEnv == [GOOGLE_MAPS_API_KEY |-> EnvValue(<<"k">>), PORT |-> NotSet]
Started ==
    /\ env = StartedEnv
    /\ config = [googleMapsApiKey |-> LoadedConfig(StartedEnv).googleMapsApiKey,
                 port |-> LoadedConfig(StartedEnv).port]
    /\ proc = Process("listening", LoadedConfig(StartedEnv).port)

\* ------------------------------------------------------ JavaScript values
\* A value carries its type.  A number is exact: int + frac / 10^9 with
\* 0 <= frac < 10^9 (the rounding of floating-point arithmetic is left out).
JsUndefined == [kind |-> "undefined"]
JsNaN == [kind |-> "NaN"]
JsString(chars) == [kind |-> "string", chars |-> chars]
Giga == 1000000000
JsNumber(int, nanos) ==
    [kind |-> "number", int |-> int + (nanos \div Giga), frac |-> nanos % Giga]

RECURSIVE Pow10(_)
Pow10(n) == IF n = 0 THEN 1 ELSE 10 * Pow10(n - 1)

\* Number(s) for a decimal numeral: an optional "-", digits, and an optional
\* fraction part; NaN for any other string the model passes to it
Number(s) ==
    LET neg == s # <<>> /\ s[1] = "-"
        body == IF neg THEN Tail(s) ELSE s
        ip == DigitPrefix(body)
        rest == SubSeq(body, Len(ip) + 1, Len(body))
        fp == IF rest # <<>> /\ rest[1] = "." THEN DigitPrefix(Tail(rest)) ELSE <<>>
        fp9 == SubSeq(fp, 1, IF Len(fp) < 9 THEN Len(fp) ELSE 9)
        wellFormed == /\ ip \o fp # <<>>
                      /\ \/ rest = <<>>
                         \/ rest[1] = "." /\ Len(rest) = Len(fp) + 1
        nanos == DigitsValue(fp9) * Pow10(9 - Len(fp9))
    IN IF ~wellFormed THEN JsNaN
       ELSE IF neg THEN JsNumber(0 - DigitsValue(ip), 0 - nanos)
       ELSE JsNumber(DigitsValue(ip), nanos)

\* -------------------------------------------------------- durationToSeconds
\* /^([0-9]+(?:\.[0-9]+)?)s$/.exec(s): the first group, or no match
DurationPattern(s) ==
    LET ip == DigitPrefix(s)
        r1 == SubSeq(s, Len(ip) + 1, Len(s))
        fp == IF r1 # <<>> /\ r1[1] = "." THEN DigitPrefix(Tail(r1)) ELSE <<>>
        group == IF fp # <<>> THEN SubSeq(s, 1, Len(ip) + 1 + Len(fp)) ELSE ip
    IN IF ip # <<>> /\ s = group \o <<"s">>
       THEN [matched |-> TRUE, group |-> group]
       ELSE [matched |-> FALSE, group |-> <<>>]

\* the duration of a route or of a leg: undefined (null is made undefined by
\* the callers), a string, or an IDuration object
DurationObject(sec, nanos) == [kind |-> "object", seconds |-> sec, nanos |-> nanos]

\* a ?? b
Nullish(a, b) == IF a = JsUndefined THEN b ELSE a

durationToSeconds_zero(d) == JsNumber(0, 0)
durationToSeconds(d) ==
    IF d = JsUndefined \/ d = JsString(<<>>) THEN JsUndefined
    ELSE IF d.kind = "string"
    THEN LET m == DurationPattern(d.chars)
         IN IF m.matched THEN Number(m.group) ELSE JsUndefined
    ELSE LET secondsRaw == Nullish(d.seconds, JsNumber(0, 0))
             sec == IF secondsRaw.kind = "string" THEN Number(secondsRaw.chars)
                    ELSE secondsRaw
             nanos == Nullish(d.nanos, JsNumber(0, 0))
         IN IF sec = JsNaN THEN JsNaN
            ELSE JsNumber(sec.int, sec.frac + nanos.int)    \* seconds + nanos / 1e9

DurationChars == {"0", "3", "5", ".", "s", "-"}
\* seconds is a number or the numeral of an int64; nanos is a whole number
\* of nanoseconds
SecondsValues == {JsUndefined, JsNumber(0, 0), JsNumber(3, 0), JsNumber(-1, 0),
                  JsString(<<"3">>), JsString(<<"0">>)}
NanosValues == {JsUndefined, JsNumber(0, 0), JsNumber(500000000, 0), JsNumber(1, 0),
                JsNumber(-500000000, 0)}
Durations ==
    {JsUndefined}
    \cup {JsString(c) : c \in Strings(DurationChars, MaxDurationLen)}
    \cup {DurationObject(sec, n) : sec \in SecondsValues, n \in NanosValues}

\* durationToSeconds is applied to the duration at hand
CallDurationToSeconds ==
    /\ duration # [kind |-> "none"]
    /\ seconds = [kind |-> "none"]
    /\ seconds' = durationToSeconds(duration)
    /\ UNCHANGED <<duration, call, response, structured, sessionVars, startupVars>>

\* --------------------------------------------------------- tool handlers
\* Provider data: a field that the provider did not supply (undefined or
\* null) is JsUndefined, an array that may be absent is a JsArray, an object
\* is a record of its fields.  Structured output: an array is a sequence, a
\* property that is undefined is JsUndefined.
JsArray(items) == [kind |-> "array", items |-> items]
ArraysOf(S, n) == {JsArray(x) : x \in Strings(S, n)}
\* array.map(f) is written [i \in 1..Len(array) |-> f(array[i])]
\* obj?.field
OptChain(obj, field) == IF obj = JsUndefined THEN JsUndefined ELSE obj[field]

NoCall == [tool |-> "none", fn |-> "none", timeout |-> 0]
NoResponse == [kind |-> "none"]
Silent == [kind |-> "silent"]
Rejected == [kind |-> "rejected"]
ProviderData(data) == [kind |-> "data", data |-> data]
NoStructured == [kind |-> "none"]
ToolFailure == [kind |-> "failure"]
ToolResult(value) == [kind |-> "result", value |-> value]
NoDuration == [kind |-> "none"]
NoSeconds == [kind |-> "none"]

Tools == {"geocode", "places_search_text", "places_search_nearby",
          "places_autocomplete", "places_get_place", "directions"}
NoTimeout == 0
\* googleMaps.ts: the client call each tool awaits and the timeout (ms) it is
\* given; the Places and Routes client calls are given none
OutboundCall(tool) ==
    CASE tool = "geocode" ->
            [tool |-> tool, fn |-> "httpClient.geocode", timeout |-> 10000]
      [] tool = "places_search_text" ->
            [tool |-> tool, fn |-> "placesClient.searchText", timeout |-> NoTimeout]
      [] tool = "places_search_nearby" ->
            [tool |-> tool, fn |-> "placesClient.searchNearby", timeout |-> NoTimeout]
      [] tool = "places_autocomplete" ->
            [tool |-> tool, fn |-> "placesClient.autocompletePlaces", timeout |-> NoTimeout]
      [] tool = "places_get_place" ->
            [tool |-> tool, fn |-> "placesClient.getPlace", timeout |-> NoTimeout]
      [] tool = "directions" ->
            [tool |-> tool, fn |-> "routesClient.computeRoutes", timeout |-> NoTimeout]

\* ---- provider responses of the bounded sets
Text(c) == JsString(<<c>>)
LatLngParis == [latitude |-> JsNumber(48, 858000000), longitude |-> JsNumber(2, 294000000)]
LatLngLyon == [latitude |-> JsNumber(45, 764000000), longitude |-> JsNumber(4, 835000000)]

FullPlace ==
    [id |-> Text("i"), displayName |-> [text |-> Text("n")],
     formattedAddress |-> Text("a"), location |-> LatLngParis,
     rating |-> JsNumber(4, 500000000), userRatingCount |-> JsNumber(10, 0),
     primaryType |-> Text("t"), internationalPhoneNumber |-> Text("p"),
     websiteUri |-> Text("w")]
UnnamedPlace ==
    [id |-> Text("j"), displayName |-> [text |-> JsUndefined],
     formattedAddress |-> JsUndefined, location |-> JsUndefined,
     rating |-> JsUndefined, userRatingCount |-> JsUndefined,
     primaryType |-> JsUndefined, internationalPhoneNumber |-> JsUndefined,
     websiteUri |-> JsUndefined]
BarePlace ==
    [id |-> JsUndefined, displayName |-> JsUndefined,
     formattedAddress |-> JsUndefined, location |-> JsUndefined,
     rating |-> JsUndefined, userRatingCount |-> JsUndefined,
     primaryType |-> JsUndefined, internationalPhoneNumber |-> JsUndefined,
     websiteUri |-> JsUndefined]
Places == {FullPlace, UnnamedPlace, BarePlace}
PlacesResponses == {[places |-> a] : a \in {JsUndefined} \cup ArraysOf(Places, MaxItems)}

PlaceSuggestion ==
    [placePrediction |-> [text |-> [text |-> Text("P")], placeId |-> Text("i"),
                          distanceMeters |-> JsNumber(5, 0)],
     queryPrediction |-> JsUndefined]
PlaceSuggestionNoText ==
    [placePrediction |-> [text |-> JsUndefined, placeId |-> Text("j"),
                          distanceMeters |-> JsUndefined],
     queryPrediction |-> JsUndefined]
QuerySuggestion ==
    [placePrediction |-> JsUndefined,
     queryPrediction |-> [text |-> [text |-> Text("q")]]]
EmptySuggestion == [placePrediction |-> JsUndefined, queryPrediction |-> JsUndefined]
Suggestions == {PlaceSuggestion, PlaceSuggestionNoText, QuerySuggestion, EmptySuggestion}
AutocompleteResponses ==
    {[suggestions |-> a] : a \in {JsUndefined} \cup ArraysOf(Suggestions, MaxItems)}

FullLeg ==
    [startLocation |-> [latLng |-> LatLngParis], endLocation |-> [latLng |-> LatLngLyon],
     distanceMeters |-> JsNumber(1200, 0), duration |-> JsString(<<"3", ".", "5", "s">>)]
LegNoStart ==
    [startLocation |-> JsUndefined, endLocation |-> [latLng |-> LatLngLyon],
     distanceMeters |-> JsUndefined, duration |-> JsUndefined]
FullRoute ==
    [distanceMeters |-> JsNumber(1200, 0),
     duration |-> DurationObject(JsNumber(3, 0), JsNumber(500000000, 0)),
     legs |-> JsArray(<<FullLeg>>)]
RouteLegNoStart ==
    [distanceMeters |-> JsNumber(1200, 0), duration |-> JsString(<<"3", "s">>),
     legs |-> JsArray(<<FullLeg, LegNoStart>>)]
BareRoute == [distanceMeters |-> JsUndefined, duration |-> JsUndefined, legs |-> JsUndefined]
Routes == {FullRoute, RouteLegNoStart, BareRoute}
DirectionsResponses == {[routes |-> a] : a \in {JsUndefined} \cup ArraysOf(Routes, MaxItems)}

GeocodeResult ==
    [formatted_address |-> Text("a"), place_id |-> Text("i"),
     geometry |-> [location |-> [lat |-> JsNumber(48, 858000000),
                                 lng |-> JsNumber(2, 294000000)]]]
GeocodeResponses ==
    {[results |-> x, status |-> IF x = <<>> THEN "ZERO_RESULTS" ELSE "OK"] :
        x \in Strings({GeocodeResult}, MaxItems)}

Responses(tool) ==
    CASE tool = "geocode" -> GeocodeResponses
      [] tool \in {"places_search_text", "places_search_nearby"} -> PlacesResponses
      [] tool = "places_autocomplete" -> AutocompleteResponses
      [] tool = "places_get_place" -> Places
      [] tool = "directions" -> DirectionsResponses

\* ---- the handlers registered with server.registerTool, after their await
geocodeHandler(data) ==
    LET mapped(r) == [formatted_address |-> r.formatted_address,
                      place_id |-> r.place_id,
                      location |-> [lat |-> r.geometry.location.lat,
                                    lng |-> r.geometry.location.lng]]
    IN [results |-> [i \in 1..Len(data.results) |-> mapped(data.results[i])],
        status |-> data.status]

\* the object both place searches build for a place
PlaceResult(p) ==
    [id |-> p.id,
     display_name |-> OptChain(p.displayName, "text"),
     formatted_address |-> p.formattedAddress,
     location |-> IF p.location # JsUndefined
                  THEN [lat |-> p.location.latitude, lng |-> p.location.longitude]
                  ELSE JsUndefined,
     rating |-> p.rating,
     user_rating_count |-> p.userRatingCount,
     primary_type |-> p.primaryType]

placesSearchTextHandler_ok(resp) ==
    LET places == Nullish(resp.places, JsArray(<<>>)).items
    IN [results |-> [i \in 1..Len(places) |-> PlaceResult(places[i])],
        status |-> "OK"]
placesSearchTextHandler(resp) ==
    LET places == Nullish(resp.places, JsArray(<<>>)).items
        results == [i \in 1..Len(places) |-> PlaceResult(places[i])]
    IN [results |-> results,
        status |-> IF Len(results) # 0 THEN "OK" ELSE "ZERO_RESULTS"]

placesSearchNearbyHandler(resp) ==
    LET places == Nullish(resp.places, JsArray(<<>>)).items
        results == [i \in 1..Len(places) |-> PlaceResult(places[i])]
    IN [results |-> results,
        status |-> IF Len(results) # 0 THEN "OK" ELSE "ZERO_RESULTS"]

placesAutocompleteHandler(resp) ==
    LET suggestion(s) ==
            IF s.placePrediction # JsUndefined
            THEN [kind |-> "place",
                  text |-> Nullish(OptChain(s.placePrediction.text, "text"), JsString(<<>>)),
                  place_id |-> s.placePrediction.placeId,
                  distance_meters |-> s.placePrediction.distanceMeters]
            ELSE [kind |-> "query",
                  text |-> Nullish(OptChain(OptChain(s.queryPrediction, "text"), "text"),
                                   JsString(<<>>)),
                  place_id |-> JsUndefined,
                  distance_meters |-> JsUndefined]
        suggestions == Nullish(resp.suggestions, JsArray(<<>>)).items
    IN [suggestions |-> [i \in 1..Len(suggestions) |-> suggestion(suggestions[i])]]

placesGetPlaceHandler(p) ==
    [place |-> [id |-> p.id,
                display_name |-> OptChain(p.displayName, "text"),
                formatted_address |-> p.formattedAddress,
                location |-> IF p.location # JsUndefined
                             THEN [lat |-> p.location.latitude,
                                   lng |-> p.location.longitude]
                             ELSE JsUndefined,
                rating |-> p.rating,
                user_rating_count |-> p.userRatingCount,
                primary_type |-> p.primaryType,
                phone |-> p.internationalPhoneNumber,
                website_uri |-> p.websiteUri]]

directionsHandler(data) ==
    LET legOf(leg) ==
            [start_location |->
                [lat |-> OptChain(OptChain(leg.startLocation, "latLng"), "latitude"),
                 lng |-> OptChain(OptChain(leg.startLocation, "latLng"), "longitude")],
             end_location |->
                [lat |-> OptChain(OptChain(leg.endLocation, "latLng"), "latitude"),
                 lng |-> OptChain(OptChain(leg.endLocation, "latLng"), "longitude")],
             distance_meters |-> leg.distanceMeters,
             duration_seconds |-> durationToSeconds(Nullish(leg.duration, JsUndefined))]
        routeOf(route) ==
            LET legs == Nullish(route.legs, JsArray(<<>>)).items
            IN [distance_meters |-> route.distanceMeters,
                duration_seconds |-> durationToSeconds(Nullish(route.duration, JsUndefined)),
                legs |-> [j \in 1..Len(legs) |-> legOf(legs[j])]]
        routes == Nullish(data.routes, JsArray(<<>>)).items
    IN [routes |-> [i \in 1..Len(routes) |-> routeOf(routes[i])],
        status |-> IF data.routes # JsUndefined /\ Len(data.routes.items) > 0
                   THEN "OK" ELSE "ZERO_RESULTS"]

Handler(tool, data) ==
    CASE tool = "geocode" -> geocodeHandler(data)
      [] tool = "places_search_text" -> placesSearchTextHandler(data)
      [] tool = "places_search_nearby" -> placesSearchNearbyHandler(data)
      [] tool = "places_autocomplete" -> placesAutocompleteHandler(data)
      [] tool = "places_get_place" -> placesGetPlaceHandler(data)
      [] tool = "directions" -> directionsHandler(data)

\* ---- a tool call, from the handler's call of the provider to its end
Awaiting == call # NoCall /\ structured = NoStructured

\* the protocol engine invokes the handler of a tool, which calls the provider
\* and awaits
CallTool(tool) ==
    /\ ~Awaiting
    /\ call' = OutboundCall(tool)
    /\ response' = NoResponse
    /\ structured' = NoStructured
    /\ UNCHANGED <<duration, seconds, sessionVars, startupVars>>

\* the provider answers; the handler maps the answer and returns
ProviderAnswers(tool, data) ==
    /\ Awaiting /\ response = NoResponse
    /\ call.tool = tool
    /\ response' = ProviderData(data)
    /\ structured' = ToolResult(Handler(call.tool, data))
    /\ UNCHANGED <<call, duration, seconds, sessionVars, startupVars>>

\* the client call rejects (an error status, a network failure): the handler
\* has no try/catch, the tool call ends as a failure
ProviderRejects ==
    /\ Awaiting /\ response = NoResponse
    /\ response' = Rejected
    /\ structured' = ToolFailure
    /\ UNCHANGED <<call, duration, seconds, sessionVars, startupVars>>

\* the provider does not answer
ProviderSilent ==
    /\ Awaiting /\ response = NoResponse
    /\ response' = Silent
    /\ UNCHANGED <<call, structured, duration, seconds, sessionVars, startupVars>>

\* the timeout given to the client call expires: the call rejects
Timeout ==
    /\ Awaiting /\ response = Silent
    /\ call.timeout # NoTimeout
    /\ response' = Rejected
    /\ structured' = ToolFailure
    /\ UNCHANGED <<call, duration, seconds, sessionVars, startupVars>>

ToolsIdle ==
    /\ call = NoCall
    /\ response = NoResponse
    /\ structured = NoStructured
    /\ duration = NoDuration
    /\ seconds = NoSeconds

\* -------------------------------------------------------------------- Init
InitState ==
    /\ transports = [k \in UUIDs |-> NoTransport]
    /\ server = NoTransport
    /\ tstate = [t \in Transports |-> "unused"]
    /\ sessionId = [t \in Transports |-> undefined]
    /\ pending = [t \in Transports |-> NoRequest]
    /\ toolcall = [t \in Transports |-> "idle"]
    /\ capture = [t \in Transports |-> NoTransport]
    /\ closed = NoClose
    /\ nevent = 0
    /\ reply = NoReply
    /\ result = NoResult

Init == InitState /\ runToCompletion = FALSE /\ Started /\ ToolsIdle

\* a request is taken up: no new transport is between connect and handleRequest,
\* unless the scheduling lets requests interleave there
Quiet == runToCompletion => \A t \in Transports : tstate[t] # "connected"

\* ------------------------------------------------------------------ close
\* transport.close(): the onclose installed by server.connect runs the handler
\* of index.ts and then disconnects the server from its transport
Close(t, cause) ==
    /\ transports' = onclose(t)
    /\ server' = NoTransport
    /\ tstate' = [tstate EXCEPT ![t] = "closed"]
    /\ closed' = [seq |-> nevent + 1, transport |-> t, cause |-> cause,
                  again |-> tstate[t] = "closed"]

\* ------------------------------------------------------------- POST /mcp
\* no transport, body is no initialize request: 400
PostBadRequest(h, p) ==
    /\ nevent < MaxEvents
    /\ Listening
    /\ Quiet
    /\ Lookup(h) = NoTransport
    /\ ~isInitializeRequest(p)
    /\ nevent' = nevent + 1
    /\ reply' = Response(nevent + 1, "POST", h, p, TRUE, 400, MissingSessionBody,
                         undefined)
    /\ UNCHANGED <<startupVars, toolVars>>
    /\ UNCHANGED <<runToCompletion, transports, server, tstate, sessionId, pending,
                   toolcall, capture, closed, result>>

\* no transport, body is an initialize request: construct, connect, await
PostInitialize(h, p, a) ==
    /\ nevent < MaxEvents
    /\ Listening
    /\ Quiet
    /\ Lookup(h) = NoTransport
    /\ isInitializeRequest(p)
    /\ NextTransport # NoTransport
    /\ nevent' = nevent + 1
    /\ tstate' = [tstate EXCEPT ![NextTransport] = "connected"]
    /\ pending' = [pending EXCEPT ![NextTransport] =
                      [seq |-> nevent + 1, header |-> h, payload |-> p, accept |-> a]]
    /\ server' = NextTransport
    /\ UNCHANGED <<startupVars, toolVars>>
    /\ UNCHANGED <<runToCompletion, transports, sessionId, toolcall, capture, closed,
                   reply, result>>

\* reply.hijack(); await transport.handleRequest(...) on the new transport
HandleInitialize(t) ==
    /\ tstate[t] = "connected"
    /\ pending' = [pending EXCEPT ![t] = NoRequest]
    /\ LET rq == pending[t] IN
       \/ /\ ~rq.accept
          /\ tstate' = [tstate EXCEPT ![t] = "uninitialized"]
          /\ reply' = Response(rq.seq, "POST", rq.header, rq.payload, rq.accept,
                               406, NotAcceptableBody, undefined)
          /\ UNCHANGED <<transports, sessionId, result>>
       \/ /\ rq.accept
          /\ \E sid \in sessionIdGenerator :
                /\ sessionId' = [sessionId EXCEPT ![t] = sid]
                /\ transports' = onsessioninitialized(sid, t)
                /\ reply' = Response(rq.seq, "POST", rq.header, rq.payload, rq.accept,
                                     200, StreamBody, sid)
          /\ tstate' = [tstate EXCEPT ![t] = "initialized"]
          /\ result' = [session |-> t, via |-> server, outcome |-> "initialize",
                        isError |-> FALSE]
    /\ UNCHANGED <<startupVars, toolVars>>
    /\ UNCHANGED <<runToCompletion, server, toolcall, capture, closed, nevent>>

\* a registered transport, any body but a tool call
PostMessage(h, p, a) ==
    /\ nevent < MaxEvents
    /\ Listening
    /\ Quiet
    /\ Lookup(h) \in Transports
    /\ p # "tools/call" \/ ~a
    /\ nevent' = nevent + 1
    /\ LET t == Lookup(h) IN
       IF ~a
       THEN /\ reply' = Response(nevent + 1, "POST", h, p, a, 406, NotAcceptableBody,
                                 undefined)
            /\ UNCHANGED result
       ELSE IF isInitializeRequest(p)
       THEN /\ reply' = Response(nevent + 1, "POST", h, p, a, 400, AlreadyInitializedBody,
                                 undefined)
            /\ UNCHANGED result
       ELSE /\ reply' = Response(nevent + 1, "POST", h, p, a, 200, StreamBody,
                                 sessionId[t])
            /\ result' = [session |-> t, via |-> server, outcome |-> p,
                          isError |-> FALSE]
    /\ UNCHANGED <<startupVars, toolVars>>
    /\ UNCHANGED <<runToCompletion, transports, server, tstate, sessionId, pending,
                   toolcall, capture, closed>>

\* a registered transport, a tool call: the handler awaits the provider
\* (one tool call of a session is in flight at a time)
PostToolCall(h, a) ==
    /\ nevent < MaxEvents
    /\ Listening
    /\ Quiet
    /\ Lookup(h) \in Transports
    /\ a
    /\ toolcall[Lookup(h)] = "idle"
    /\ nevent' = nevent + 1
    /\ toolcall' = [toolcall EXCEPT ![Lookup(h)] = "pending"]
    /\ capture' = [capture EXCEPT ![Lookup(h)] = server]
    /\ reply' = Response(nevent + 1, "POST", h, "tools/call", a, 200, StreamBody,
                         sessionId[Lookup(h)])
    /\ UNCHANGED <<startupVars, toolVars>>
    /\ UNCHANGED <<runToCompletion, transports, server, tstate, sessionId, pending,
                   closed, result>>

\* the provider call of a tool handler ends; the engine sends the tool result
\* through the transport the server was connected to when the call arrived
ToolReturn(t, o) ==
    /\ toolcall[t] = "pending"
    /\ Quiet
    /\ toolcall' = [toolcall EXCEPT ![t] = "idle"]
    /\ capture' = [capture EXCEPT ![t] = NoTransport]
    /\ result' = [session |-> t, via |-> capture[t], outcome |-> o,
                  isError |-> GeocodeTool(o).isError]
    /\ UNCHANGED <<startupVars, toolVars>>
    /\ UNCHANGED <<runToCompletion, transports, server, tstate, sessionId, pending,
                   closed, nevent, reply>>

\* the header names a member of Object.prototype: `transport` is truthy but
\* no transport, and transport.handleRequest(...) throws after reply.hijack()
RouteInherited(method, h, p) ==
    /\ nevent < MaxEvents
    /\ Listening
    /\ Quiet
    /\ Lookup(h) = ObjectPrototypeMember
    /\ method = "POST" \/ p = "none"
    /\ nevent' = nevent + 1
    /\ reply' = Response(nevent + 1, method, h, p, TRUE, 0, TypeErrorBody, undefined)
    /\ UNCHANGED <<startupVars, toolVars>>
    /\ UNCHANGED <<runToCompletion, transports, server, tstate, sessionId, pending,
                   toolcall, capture, closed, result>>

\* -------------------------------------------------------------- GET /mcp
Get(h, a) ==
    /\ nevent < MaxEvents
    /\ Listening
    /\ Quiet
    /\ Lookup(h) # ObjectPrototypeMember
    /\ nevent' = nevent + 1
    /\ IF Lookup(h) = NoTransport
       THEN reply' = Response(nevent + 1, "GET", h, "none", a, 400, InvalidSessionBody,
                              undefined)
       ELSE IF a
       THEN reply' = Response(nevent + 1, "GET", h, "none", a, 200, StreamBody,
                              sessionId[Lookup(h)])
       ELSE reply' = Response(nevent + 1, "GET", h, "none", a, 406, NotAcceptableBody,
                              undefined)
    /\ UNCHANGED <<startupVars, toolVars>>
    /\ UNCHANGED <<runToCompletion, transports, server, tstate, sessionId, pending,
                   toolcall, capture, closed, result>>

\* ----------------------------------------------------------- DELETE /mcp
Delete(h) ==
    /\ nevent < MaxEvents
    /\ Listening
    /\ Quiet
    /\ Lookup(h) # ObjectPrototypeMember
    /\ nevent' = nevent + 1
    /\ IF Lookup(h) = NoTransport
       THEN /\ reply' = Response(nevent + 1, "DELETE", h, "none", TRUE, 400,
                                 InvalidSessionBody, undefined)
            /\ UNCHANGED <<transports, server, tstate, closed>>
       ELSE /\ Close(Lookup(h), "terminate")
            /\ reply' = Response(nevent + 1, "DELETE", h, "none", TRUE, 200, EmptyBody,
                                 sessionId[Lookup(h)])
    /\ UNCHANGED <<startupVars, toolVars>>
    /\ UNCHANGED <<runToCompletion, sessionId, pending, toolcall, capture, result>>

\* --------------------------------------------------- close notifications
\* the transport reports that it closed, for a reason other than DELETE
ChannelClose(t, cause) ==
    /\ nevent < MaxEvents
    /\ Listening
    /\ Quiet
    /\ tstate[t] \in {"uninitialized", "initialized", "closed"}
    /\ nevent' = nevent + 1
    /\ Close(t, cause)
    /\ UNCHANGED <<startupVars, toolVars>>
    /\ UNCHANGED <<runToCompletion, sessionId, pending, toolcall, capture, reply,
                   result>>

\* -------------------------------------------------------------------- Next
Next ==
    \/ \E h \in Headers, p \in Payloads : PostBadRequest(h, p)
    \/ \E h \in Headers, p \in Payloads, a \in BOOLEAN : PostInitialize(h, p, a)
    \/ \E t \in Transports : HandleInitialize(t)
    \/ \E h \in Headers, p \in Payloads, a \in BOOLEAN : PostMessage(h, p, a)
    \/ \E h \in Headers, a \in BOOLEAN : PostToolCall(h, a)
    \/ \E t \in Transports, o \in ProviderOutcomes : ToolReturn(t, o)
    \/ \E h \in Headers, p \in Payloads : RouteInherited("POST", h, p)
    \/ \E m \in {"GET", "DELETE"}, h \in Headers : RouteInherited(m, h, "none")
    \/ \E h \in Headers, a \in BOOLEAN : Get(h, a)
    \/ \E h \in Headers : Delete(h)
    \/ \E t \in Transports, c \in CloseCauses : ChannelClose(t, c)

Spec == Init /\ [][Next]_vars

\* Run-to-completion scheduling: `await server.connect(transport)` waits for
\* no I/O, so the handleRequest of a new transport follows its construction
\* before any other request is served.  Every behaviour of SpecSeq is, but
\* for the value of runToCompletion, a behaviour of Spec.
InitSeq == InitState /\ runToCompletion = TRUE /\ Started /\ ToolsIdle

SpecSeq == InitSeq /\ [][Next]_vars

\* The process from its start, in every environment: the modules are loaded,
\* startHttpServer listens, and requests are served (here the two routes that
\* answer without a session).
InitStartup ==
    /\ InitState /\ runToCompletion = FALSE /\ ToolsIdle
    /\ env \in Envs
    /\ proc = Process("start", NoPort)
    /\ config = NoConfig

NextStartup ==
    \/ LoadConfig
    \/ \E ok \in BOOLEAN : Listen(ok)
    \/ \E h \in Headers, p \in Payloads : PostBadRequest(h, p)
    \/ \E h \in Headers, a \in BOOLEAN : Get(h, a)

SpecStartup == InitStartup /\ [][NextStartup]_vars

\* durationToSeconds on every duration of the bounded sets
InitDuration ==
    /\ InitState /\ runToCompletion = FALSE /\ Started
    /\ call = NoCall /\ response = NoResponse /\ structured = NoStructured
    /\ duration \in Durations
    /\ seconds = NoSeconds

NextDuration == CallDurationToSeconds

SpecDuration == InitDuration /\ [][NextDuration]_vars

\* The tool handlers on every provider response of the bounded sets
InitTools == InitState /\ runToCompletion = FALSE /\ Started /\ ToolsIdle

NextTools ==
    \/ \E tool \in Tools : CallTool(tool)
    \/ \E tool \in Tools : \E data \in Responses(tool) : ProviderAnswers(tool, data)
    \/ ProviderRejects
    \/ ProviderSilent
    \/ Timeout

SpecTools == InitTools /\ [][NextTools]_vars

\* ------------------------------------------------------------------ claims
\* a step in which an HTTP request is answered: reply' is the answer
Responded == reply'.seq # reply.seq
\* a transport that is in the registry, before and after a step
Live(t) == \E k \in UUIDs : transports[k] = t
LiveNext(t) == \E k \in UUIDs : transports'[k] = t
\* the answer reply' reports a session created in this step under a fresh id
CreatedFresh ==
    /\ reply'.code = 200
    /\ reply'.sid \in UUIDs
    /\ reply'.sid \notin Issued
    /\ transports[reply'.sid] = NoTransport
    /\ transports'[reply'.sid] \in Transports
    /\ sessionId'[transports'[reply'.sid]] = reply'.sid
    /\ tstate[transports'[reply'.sid]] = "connected"
    /\ tstate'[transports'[reply'.sid]] = "initialized"

\* C1 as stated: every POST with an initialize payload and no session id is
\* answered with a new session, registered under an id never issued before,
\* and the answer carries that id.
C1_EveryInitializeCreates ==
    [][(Responded /\ reply'.method = "POST" /\ reply'.payload = "initialize"
            /\ ~Truthy(reply'.header))
        => CreatedFresh]_vars

\* C1 amended: every POST with an initialize payload and no session id that
\* the transport accepts is answered with a new session, registered under an
\* id never issued before (after any creates and destroys), and the answer
\* carries that id.
C1_AcceptedInitializeCreates ==
    [][(Responded /\ reply'.method = "POST" /\ reply'.payload = "initialize"
            /\ ~Truthy(reply'.header) /\ reply'.accept)
        => CreatedFresh]_vars

\* a second session is created, without a session id, after the first was destroyed
C1_Witness ==
    /\ reply.method = "POST" /\ reply.payload = "initialize"
    /\ ~Truthy(reply.header) /\ reply.accept
    /\ reply.code = 200 /\ reply.sid = UUIDNames[2]
    /\ transports[UUIDNames[2]] \in Transports
    /\ \E t \in Transports : tstate[t] = "closed" /\ sessionId[t] = UUIDNames[1]
    /\ 0 < closed.seq /\ closed.seq < reply.seq

\* C2 as stated: a POST presenting a session id that was never issued, or
\* whose session was destroyed, is answered 400 whatever its payload, and
\* creates no session.
C2_UnknownIdNeverCreates ==
    [][(Responded /\ reply'.method = "POST" /\ reply'.header \in UUIDs
            /\ transports[reply'.header] = NoTransport
            /\ transports'[reply'.header] = NoTransport)
        => (reply'.code = 400 /\ transports' = transports)]_vars

\* C3: a POST without a session id whose payload is no initialize request is
\* answered 400 with the JSON-RPC error -32000 "Bad Request: No valid session
\* ID provided"; no transport is constructed, nothing reaches the protocol
\* engine, the registry and every session stay as they were.
C3_MissingSessionId ==
    [][(Responded /\ reply'.method = "POST" /\ ~Truthy(reply'.header)
            /\ reply'.payload # "initialize")
        => /\ reply'.code = 400
           /\ reply'.body = [type |-> "json-rpc-error", code |-> -32000,
                             message |-> "Bad Request: No valid session ID provided"]
           /\ reply'.sid = undefined
           /\ UNCHANGED <<transports, server, tstate, sessionId, pending, toolcall,
                          capture, closed, result>>]_vars

\* a tool call without a session id was refused while a session was live
C3_Witness ==
    /\ reply.method = "POST" /\ ~Truthy(reply.header) /\ reply.payload = "tools/call"
    /\ reply.code = 400
    /\ \E t \in Transports : Live(t)

\* C4 as stated: a GET or DELETE whose session id is absent or names no live
\* session is answered 400 with the text "Invalid or missing session ID";
\* no protocol engine is invoked and the registry is unchanged.
C4_InvalidSessionId ==
    [][(Responded /\ reply'.method \in {"GET", "DELETE"}
            /\ (\/ ~Truthy(reply'.header)
                \/ reply'.header \notin UUIDs
                \/ transports[reply'.header] = NoTransport))
        => /\ reply'.code = 400
           /\ reply'.body = [type |-> "text", code |-> 0,
                             message |-> "Invalid or missing session ID"]
           /\ UNCHANGED <<transports, server, result>>]_vars

\* C5 as stated: once a DELETE of a live session is acknowledged its id is
\* not in the registry, and every request that arrives later and presents
\* that id is answered 400.
C5_TerminatedIdIsGone ==
    [][/\ closed'.cause = "terminate" =>
            transports'[sessionId'[closed'.transport]] = NoTransport
       /\ (Responded /\ closed.cause = "terminate" /\ closed.seq < reply'.seq
              /\ reply'.header = sessionId[closed.transport])
          => reply'.code = 400]_vars

C7_OneSessionPerId ==
    [][/\ \A k \in UUIDs : transports'[k] # NoTransport =>
            sessionId'[transports'[k]] = k
       /\ \A t, u \in Transports :
            (t # u /\ sessionId'[t] # undefined) => sessionId'[t] # sessionId'[u]
       /\ \A k \in UUIDs : transports[k] # NoTransport =>
            transports'[k] \in {transports[k], NoTransport}]_vars

\* two initialize requests were in flight together (the transport constructed
\* second was initialized first) and both are registered, under different ids
C7_Witness ==
    /\ transports[UUIDNames[1]] = 2
    /\ transports[UUIDNames[2]] = 1
    /\ sessionId[1] = UUIDNames[2] /\ sessionId[2] = UUIDNames[1]

C9_SessionsIndependent ==
    [][/\ \A t \in Transports : (server = t /\ Live(t) /\ LiveNext(t)) => server' = t
       /\ (result' # result /\ LiveNext(result'.session))
            => result'.via = result'.session]_vars

\* C10 as stated: when the provider call of a tool handler fails, the live
\* session that made the call gets a failed tool result, stays registered,
\* and nothing else changes.
C10_ToolFailureStaysInSession ==
    [][\A t \in Transports :
        (toolcall[t] = "pending" /\ toolcall'[t] = "idle" /\ Live(t)
            /\ result'.outcome # "ok")
        => /\ result'.isError
           /\ result'.session = t
           /\ result'.via = t
           /\ UNCHANGED <<transports, server, tstate, sessionId>>]_vars

\* C16: the registry is empty as long as no request has been received; every
\* entry transports[k] is a transport that completed initialization, has not
\* been closed, and has k as its own sessionId; a transport that was
\* constructed but whose initialization has not completed (it is connected and
\* awaits handleRequest, or handleRequest refused the request) is in no entry.
C16_RegistryEntriesInitialized ==
    /\ nevent = 0 => \A k \in UUIDs : transports[k] = NoTransport
    /\ \A k \in UUIDs : transports[k] # NoTransport =>
            /\ transports[k] \in Transports
            /\ tstate[transports[k]] = "initialized"
            /\ sessionId[transports[k]] = k
    /\ \A t \in Transports :
            tstate[t] \in {"unused", "connected", "uninitialized"} => ~Live(t)

\* a transport whose initialize request was refused stays out of the registry
\* while a transport constructed after it is registered
C16_Witness ==
    \E t, u \in Transports :
        /\ tstate[t] = "uninitialized" /\ sessionId[t] = undefined
        /\ tstate[u] = "initialized" /\ transports[sessionId[u]] = u
        /\ t < u

IsNumberS(c) ==
    /\ Len(c) >= 2 /\ c[Len(c)] = "s"
    /\ \E k \in 1..(Len(c) - 1) :
          /\ \A i \in 1..k : IsDigit(c[i])
          /\ \/ k = Len(c) - 1
             \/ /\ k + 2 <= Len(c) - 1
                /\ c[k + 1] = "."
                /\ \A i \in (k + 2)..(Len(c) - 1) : IsDigit(c[i])
\* the number such a string denotes, digit by digit: whole seconds and
\* billionths of a second
RECURSIVE PlaceValueSum(_, _, _)
PlaceValueSum(c, i, weight) ==
    IF i = 0 \/ ~IsDigit(c[i]) THEN 0
    ELSE DigitValue(c[i]) * weight + PlaceValueSum(c, i - 1, weight * 10)
PointAt(c) == IF \E i \in 1..Len(c) : c[i] = "."
              THEN CHOOSE i \in 1..Len(c) : c[i] = "." ELSE Len(c)
WholeSeconds(c) == PlaceValueSum(c, PointAt(c) - 1, 1)
Billionths(c) ==
    IF PointAt(c) = Len(c) THEN 0
    ELSE PlaceValueSum(c, Len(c) - 1, 1) * Pow10(9 - (Len(c) - 1 - PointAt(c)))

C11_SilentProviderTimesOut ==
    (Awaiting /\ response = Silent) => (call.timeout > 0 /\ ENABLED Timeout)

\* the number of routes or places a provider response holds
Count(array) == IF array = JsUndefined THEN 0 ELSE Len(array.items)

\* C12: places_search_text and places_search_nearby return status
\* "ZERO_RESULTS" exactly when their results array is empty and "OK" otherwise;
\* directions returns {routes: [], status: "ZERO_RESULTS"} when the provider
\* returns no route or no routes field, and otherwise status "OK" with one
\* mapped route per provider route, in the provider's order.
C12_StatusFollowsResults ==
    structured.kind = "result" =>
        LET data == response.data
            out == structured.value
        IN /\ call.tool \in {"places_search_text", "places_search_nearby"} =>
                /\ out.status = "ZERO_RESULTS" <=> out.results = <<>>
                /\ out.status # "ZERO_RESULTS" => out.status = "OK"
                /\ Len(out.results) = Count(data.places)
           /\ call.tool = "directions" =>
                /\ Count(data.routes) = 0 =>
                      out = [routes |-> <<>>, status |-> "ZERO_RESULTS"]
                /\ Count(data.routes) > 0 =>
                      /\ out.status = "OK"
                      /\ Len(out.routes) = Count(data.routes)
                      /\ \A i \in 1..Len(out.routes) :
                            /\ out.routes[i].distance_meters
                                  = data.routes.items[i].distanceMeters
                            /\ Len(out.routes[i].legs) = Count(data.routes.items[i].legs)

\* directions has mapped a provider response that has no routes field
C12_Witness ==
    /\ call.tool = "directions"
    /\ response = ProviderData([routes |-> JsUndefined])
    /\ structured = ToolResult([routes |-> <<>>, status |-> "ZERO_RESULTS"])

\* the declared output schemas (zod): z.number(), z.string(), .optional()
IsNumber(v) == v.kind = "number"
IsString(v) == v.kind = "string"
OptionalNumber(v) == v = JsUndefined \/ IsNumber(v)
OptionalString(v) == v = JsUndefined \/ IsString(v)
LatLngSchema(l) == IsNumber(l.lat) /\ IsNumber(l.lng)
PlaceSchema(r) ==
    /\ OptionalString(r.id) /\ OptionalString(r.display_name)
    /\ OptionalString(r.formatted_address)
    /\ r.location = JsUndefined \/ LatLngSchema(r.location)
    /\ OptionalNumber(r.rating) /\ OptionalNumber(r.user_rating_count)
    /\ OptionalString(r.primary_type)
OutputSchema(tool, out) ==
    CASE tool = "geocode" ->
            /\ \A i \in 1..Len(out.results) :
                  /\ IsString(out.results[i].formatted_address)
                  /\ IsString(out.results[i].place_id)
                  /\ LatLngSchema(out.results[i].location)
            /\ out.status \in STRING
      [] tool \in {"places_search_text", "places_search_nearby"} ->
            /\ \A i \in 1..Len(out.results) : PlaceSchema(out.results[i])
            /\ out.status \in STRING
      [] tool = "places_autocomplete" ->
            \A i \in 1..Len(out.suggestions) :
                /\ out.suggestions[i].kind \in {"place", "query"}
                /\ IsString(out.suggestions[i].text)
                /\ OptionalString(out.suggestions[i].place_id)
                /\ OptionalNumber(out.suggestions[i].distance_meters)
      [] tool = "places_get_place" ->
            /\ PlaceSchema(out.place)
            /\ OptionalString(out.place.phone) /\ OptionalString(out.place.website_uri)
      [] tool = "directions" ->
            /\ \A i \in 1..Len(out.routes) :
                  /\ OptionalNumber(out.routes[i].distance_meters)
                  /\ OptionalNumber(out.routes[i].duration_seconds)
                  /\ \A j \in 1..Len(out.routes[i].legs) :
                        /\ LatLngSchema(out.routes[i].legs[j].start_location)
                        /\ LatLngSchema(out.routes[i].legs[j].end_location)
                        /\ OptionalNumber(out.routes[i].legs[j].distance_meters)
                        /\ OptionalNumber(out.routes[i].legs[j].duration_seconds)
            /\ out.status \in STRING

\* the text the provider supplied for a suggestion
SuppliedText(s) ==
    IF s.placePrediction # JsUndefined
    THEN OptChain(s.placePrediction.text, "text")
    ELSE OptChain(OptChain(s.queryPrediction, "text"), "text")
\* what the provider did not supply is undefined in the output
NotFabricated(tool, data, out) ==
    CASE tool \in {"places_search_text", "places_search_nearby"} ->
            \A i \in 1..Len(out.results) :
                /\ data.places.items[i].id = JsUndefined => out.results[i].id = JsUndefined
                /\ data.places.items[i].displayName = JsUndefined =>
                      out.results[i].display_name = JsUndefined
                /\ data.places.items[i].location = JsUndefined =>
                      out.results[i].location = JsUndefined
                /\ data.places.items[i].rating = JsUndefined =>
                      out.results[i].rating = JsUndefined
      [] tool = "places_autocomplete" ->
            \A i \in 1..Len(out.suggestions) :
                SuppliedText(data.suggestions.items[i]) = JsUndefined =>
                    out.suggestions[i].text = JsUndefined
      [] tool = "places_get_place" ->
            /\ data.id = JsUndefined => out.place.id = JsUndefined
            /\ data.location = JsUndefined => out.place.location = JsUndefined
            /\ data.internationalPhoneNumber = JsUndefined => out.place.phone = JsUndefined
      [] tool = "directions" ->
            \A i \in 1..Len(out.routes) :
                /\ data.routes.items[i].duration = JsUndefined =>
                      out.routes[i].duration_seconds = JsUndefined
                /\ data.routes.items[i].distanceMeters = JsUndefined =>
                      out.routes[i].distance_meters = JsUndefined
      [] OTHER -> TRUE

\* C14 as stated: the structured output of every tool, for every provider
\* response, conforms to the tool's declared output schema (every required
\* field present with its type), and a field the provider did not supply is
\* absent from the output, not filled in.
C14_OutputConformsToSchema ==
    structured.kind = "result" =>
        /\ OutputSchema(call.tool, structured.value)
        /\ NotFabricated(call.tool, response.data, structured.value)

====
